---- MODULE Spec2Model ----
(***************************************************************************)
(* Model of the tic-tac-toe engine of game.js: the TicTacToe class (board, *)
(* minimax opponent, undo stack / redo queue / full log, review cursor)    *)
(* and the Stack and Queue classes it is built on.                         *)
(*                                                                         *)
(* Every handler of the class is a function from the session state (a      *)
(* record with one field per field of the object) to the session state,    *)
(* translated statement by statement; an action applies one handler.       *)
(* DOM rendering is left out, except the disabled flag of the review       *)
(* button, which is the only guard of startReview on the game being over.  *)
(***************************************************************************)
EXTENDS Integers, Sequences, FiniteSets, TLC

VARIABLES board, currentPlayer, gameActive, difficulty, moveHistory,
          redoHistory, reviewMode, allMoves, reviewIndex, aiRandomMovesUsed,
          pendingTimers, reviewBtnDisabled, undoCount

vars == <<board, currentPlayer, gameActive, difficulty, moveHistory,
          redoHistory, reviewMode, allMoves, reviewIndex, aiRandomMovesUsed,
          pendingTimers, reviewBtnDisabled, undoCount>>

(***************************************************************************)
(* Bounds of the exploration.                                              *)
(***************************************************************************)
\* undo operations explored per game (undoCount is reset by resetGame)
MaxUndos == 2
\* computerMove callbacks scheduled by setTimeout and not yet run
MaxPending == 1
\* the same two bounds for the exploration SpecTimers, with more callbacks
\* pending and fewer undos
TimersUndos == 1
TimersPending == 2
\* the same two bounds for the deeper exploration SpecDeep
DeepUndos == 3
DeepPending == 2
\* Math.random() is drawn from {0/D, 1/D, .., (D-1)/D}, D = RandomDenominator
RandomDenominator == 2
\* the cells the human clicks in the runs with undo and redo
HumanCells == {0, 2, 3, 6}

(***************************************************************************)
(* Board model.                                                            *)
(***************************************************************************)
null == "null"

undefined == -2

Infinity == 1000

Cells == 0..8

Players == {"X", "O"}

Difficulties == {"easy", "medium", "hard"}

emptyBoard == [i \in Cells |-> null]

winPatterns == << <<0, 1, 2>>, <<3, 4, 5>>, <<6, 7, 8>>,
                 <<0, 3, 6>>, <<1, 4, 7>>, <<2, 5, 8>>,
                 <<0, 4, 8>>, <<2, 4, 6>> >>

checkWinner(player, b) ==
    \E p \in 1..Len(winPatterns) :
        \A k \in 1..3 : b[winPatterns[p][k]] = player

\* board.map((cell, idx) => cell === null ? idx : null).filter(idx => idx !== null)
emptyIndices(b) ==
    SelectSeq(<<0, 1, 2, 3, 4, 5, 6, 7, 8>>, LAMBDA idx : b[idx] = null)

\* board.every(cell => cell !== null)
boardFull(b) == \A i \in Cells : b[i] # null

\* board[index] = player; an undefined index sets no cell of the array
setCell(b, index, player) ==
    IF index \in Cells THEN [b EXCEPT ![index] = player] ELSE b

otherPlayer(player) == IF player = "X" THEN "O" ELSE "X"

(***************************************************************************)
(* findWinningMove: the first empty cell, in ascending order, that         *)
(* completes a line for player; -1 if there is none.                       *)
(***************************************************************************)
RECURSIVE findWinningFrom(_, _, _, _)
findWinningFrom(b, player, empty, i) ==
    IF i > Len(empty) THEN -1
    ELSE IF checkWinner(player, setCell(b, empty[i], player)) THEN empty[i]
    ELSE findWinningFrom(b, player, empty, i + 1)

findWinningMove(b, player) == findWinningFrom(b, player, emptyIndices(b), 1)

\* TLC evaluates a function constructor on demand, argument by argument, at
\* every use; concatenation turns one with domain 1..n into a stored tuple.
Tabulated(f) == f \o <<>>

(***************************************************************************)
(* minimax.  selectBest is the selection loop: the first move whose score  *)
(* is strictly better than every earlier one.                              *)
(***************************************************************************)
\* selectBest with the comparison of the maximizing player reversed
RECURSIVE selectBest_reversed(_, _, _, _, _)
selectBest_reversed(moves, player, i, bestScore, bestMove) ==
    IF i > Len(moves) THEN bestMove
    ELSE IF player = "O"
         THEN IF bestMove = 0 \/ moves[i].score < bestScore
              THEN selectBest_reversed(moves, player, i + 1, moves[i].score, i)
              ELSE selectBest_reversed(moves, player, i + 1, bestScore, bestMove)
         ELSE IF moves[i].score < bestScore
              THEN selectBest_reversed(moves, player, i + 1, moves[i].score, i)
              ELSE selectBest_reversed(moves, player, i + 1, bestScore, bestMove)

\* selectBest that takes a later move of equal score (>= and <=)
RECURSIVE selectBest_lastTie(_, _, _, _, _)
selectBest_lastTie(moves, player, i, bestScore, bestMove) ==
    IF i > Len(moves) THEN bestMove
    ELSE IF player = "O"
         THEN IF moves[i].score >= bestScore
              THEN selectBest_lastTie(moves, player, i + 1, moves[i].score, i)
              ELSE selectBest_lastTie(moves, player, i + 1, bestScore, bestMove)
         ELSE IF moves[i].score <= bestScore
              THEN selectBest_lastTie(moves, player, i + 1, moves[i].score, i)
              ELSE selectBest_lastTie(moves, player, i + 1, bestScore, bestMove)

RECURSIVE selectBest(_, _, _, _, _)
selectBest(moves, player, i, bestScore, bestMove) ==
    IF i > Len(moves) THEN bestMove
    ELSE IF player = "O"
         THEN IF moves[i].score > bestScore
              THEN selectBest(moves, player, i + 1, moves[i].score, i)
              ELSE selectBest(moves, player, i + 1, bestScore, bestMove)
         ELSE IF moves[i].score < bestScore
              THEN selectBest(moves, player, i + 1, moves[i].score, i)
              ELSE selectBest(moves, player, i + 1, bestScore, bestMove)

\* The body of minimax; Recurse(b, player) stands for the recursive call.
minimaxBody(b, player, Recurse(_, _)) ==
    LET empty == emptyIndices(b) IN
    IF checkWinner("X", b) THEN [index |-> undefined, score |-> -10]
    ELSE IF checkWinner("O", b) THEN [index |-> undefined, score |-> 10]
    ELSE IF Len(empty) = 0 THEN [index |-> undefined, score |-> 0]
    ELSE LET moves == Tabulated([i \in 1..Len(empty) |->
                         [index |-> empty[i],
                          score |-> Recurse(setCell(b, empty[i], player),
                                            otherPlayer(player)).score]])
             bestMove == selectBest(moves, player, 1,
                             IF player = "O" THEN -Infinity ELSE Infinity, 0)
         IN moves[bestMove]

\* minimax as written: plain recursion over the game tree.
RECURSIVE minimaxRecursive(_, _)
minimaxRecursive(b, player) == minimaxBody(b, player, minimaxRecursive)

(***************************************************************************)
(* The same recursion, tabulated.  A call on a board with k empty cells    *)
(* only recurses into boards with k-1 empty cells, so the results are      *)
(* computed once per board, by increasing number of empty cells, each by   *)
(* the body of minimax.  Boards are numbered in base 3 to index the table. *)
(***************************************************************************)
cellCode(c) == IF c = null THEN 0 ELSE IF c = "X" THEN 1 ELSE 2

codeCell(n) == IF n = 0 THEN null ELSE IF n = 1 THEN "X" ELSE "O"

boardCode(b) ==
    cellCode(b[0]) + 3 * (cellCode(b[1]) + 3 * (cellCode(b[2])
    + 3 * (cellCode(b[3]) + 3 * (cellCode(b[4]) + 3 * (cellCode(b[5])
    + 3 * (cellCode(b[6]) + 3 * (cellCode(b[7]) + 3 * cellCode(b[8]))))))))

BoardCodes == 0..(3^9 - 1)

\* codeBoard[n + 1] is the board numbered n
codeBoard ==
    Tabulated([m \in 1..(3^9) |->
                 [i \in Cells |-> codeCell(((m - 1) \div 3^i) % 3)] @@ <<>>])

\* emptyCount[n + 1] is the number of empty cells of the board numbered n
emptyCount == Tabulated([m \in 1..(3^9) |-> Len(emptyIndices(codeBoard[m]))])

\* MinimaxLevel(k)[n + 1][p]: the result of minimax on the board numbered n,
\* for player p to move, when that board has k empty cells
RECURSIVE MinimaxLevel(_)
MinimaxLevel(k) ==
    LET below == IF k = 0 THEN <<>> ELSE MinimaxLevel(k - 1)
        Below(b, q) == below[boardCode(b) + 1][q]
    IN Tabulated([m \in 1..(3^9) |->
         IF emptyCount[m] = k
         THEN [X |-> minimaxBody(codeBoard[m], "X", Below),
               O |-> minimaxBody(codeBoard[m], "O", Below)]
         ELSE <<>>])

MinimaxTable == Tabulated([j \in 1..10 |-> MinimaxLevel(j - 1)])

minimax(b, player) ==
    MinimaxTable[Len(emptyIndices(b)) + 1][boardCode(b) + 1][player]

(***************************************************************************)
(* The array minimax is given is written in place: each move is placed     *)
(* before the recursive call and the cell set back to null after it.       *)
(* leftByMoves follows the loop over the empty cells on the array as it    *)
(* stands; lower[j + 1][n + 1][p] is the array a call on the board         *)
(* numbered n, with j empty cells, leaves.                                 *)
(***************************************************************************)
RECURSIVE leftByMoves(_, _, _, _, _)
leftByMoves(cur, player, empty, i, lower) ==
    IF i > Len(empty) THEN cur
    ELSE LET placed == setCell(cur, empty[i], player)
             returned == lower[Len(emptyIndices(placed)) + 1]
                              [boardCode(placed) + 1][otherPlayer(player)]
             restored == setCell(returned, empty[i], null)
         IN leftByMoves(restored, player, empty, i + 1, lower)

leftByMinimax(b, player, lower) ==
    IF checkWinner("X", b) \/ checkWinner("O", b) THEN b
    ELSE IF Len(emptyIndices(b)) = 0 THEN b
    ELSE leftByMoves(b, player, emptyIndices(b), 1, lower)

\* LeftLevels(k)[j + 1][n + 1][p], j <= k: the array left by minimax on the
\* board numbered n, with j empty cells, for player p
RECURSIVE LeftLevels(_)
LeftLevels(k) ==
    LET lower == IF k = 0 THEN <<>> ELSE LeftLevels(k - 1)
    IN Append(lower,
              Tabulated([m \in 1..(3^9) |->
                 IF emptyCount[m] = k
                 THEN [X |-> leftByMinimax(codeBoard[m], "X", lower),
                       O |-> leftByMinimax(codeBoard[m], "O", lower)]
                 ELSE <<>>]))

LeftTable == LeftLevels(9)

\* the array as minimax(b, player) leaves it on return
minimaxLeaves(b, player) ==
    LeftTable[Len(emptyIndices(b)) + 1][boardCode(b) + 1][player]

(***************************************************************************)
(* The session state: one field per field of the TicTacToe object, the     *)
(* number of computerMove callbacks that setTimeout holds, and the         *)
(* disabled flag of the review button.                                     *)
(***************************************************************************)
St == [board |-> board, currentPlayer |-> currentPlayer,
       gameActive |-> gameActive, difficulty |-> difficulty,
       moveHistory |-> moveHistory, redoHistory |-> redoHistory,
       reviewMode |-> reviewMode, allMoves |-> allMoves,
       reviewIndex |-> reviewIndex, aiRandomMovesUsed |-> aiRandomMovesUsed,
       pendingTimers |-> pendingTimers,
       reviewBtnDisabled |-> reviewBtnDisabled]

\* index.html is not part of the sources: the review button starts disabled
REVIEW_BTN_INITIALLY_DISABLED == TRUE

constructed ==
    [board |-> emptyBoard, currentPlayer |-> "X", gameActive |-> TRUE,
     difficulty |-> "medium", moveHistory |-> <<>>, redoHistory |-> <<>>,
     reviewMode |-> FALSE, allMoves |-> <<>>, reviewIndex |-> -1,
     aiRandomMovesUsed |-> 0, pendingTimers |-> 0,
     reviewBtnDisabled |-> REVIEW_BTN_INITIALLY_DISABLED]

(***************************************************************************)
(* Stack and Queue (data-structures.js), items oldest first.               *)
(***************************************************************************)
stackPush(items, element) == Append(items, element)

stackPop(items) == SubSeq(items, 1, Len(items) - 1)

stackPeek(items) == items[Len(items)]

queueEnqueue(items, element) == Append(items, element)

queueFront(items) == items[1]

queueDequeue(items) == Tail(items)

(***************************************************************************)
(* makeMove                                                                *)
(***************************************************************************)
\* makeMove without redoHistory.clear()
makeMove_keepsRedo(s, index, player) ==
    LET newBoard == setCell(s.board, index, player)
        moveData == [index |-> index, player |-> player, board |-> newBoard,
                     aiRandomMovesUsed |-> s.aiRandomMovesUsed]
        recorded == [s EXCEPT !.board = newBoard,
                              !.allMoves = Append(s.allMoves, moveData),
                              !.moveHistory = stackPush(s.moveHistory, moveData)]
    IN IF checkWinner(player, newBoard) \/ boardFull(newBoard)
       THEN [recorded EXCEPT !.gameActive = FALSE, !.reviewBtnDisabled = FALSE]
       ELSE [recorded EXCEPT !.currentPlayer = otherPlayer(s.currentPlayer)]

makeMove(s, index, player) ==
    LET newBoard == setCell(s.board, index, player)
        moveData == [index |-> index, player |-> player, board |-> newBoard,
                     aiRandomMovesUsed |-> s.aiRandomMovesUsed]
        recorded == [s EXCEPT !.board = newBoard,
                              !.allMoves = Append(s.allMoves, moveData),
                              !.moveHistory = stackPush(s.moveHistory, moveData),
                              !.redoHistory = <<>>]
    IN IF checkWinner(player, newBoard)
       THEN [recorded EXCEPT !.gameActive = FALSE, !.reviewBtnDisabled = FALSE]
       ELSE IF boardFull(newBoard)
       THEN [recorded EXCEPT !.gameActive = FALSE, !.reviewBtnDisabled = FALSE]
       ELSE [recorded EXCEPT !.currentPlayer = otherPlayer(s.currentPlayer)]

(***************************************************************************)
(* handleCellClick: the click is ignored in review mode, when the game is  *)
(* over, on an occupied cell and when it is not X's turn; otherwise X      *)
(* moves and, if the game goes on with O to move, computerMove is          *)
(* scheduled.                                                              *)
(***************************************************************************)
\* the guard without the test that it is X's turn
clickIgnored_anyTurn(s, index) ==
    \/ s.reviewMode
    \/ ~s.gameActive
    \/ index \notin Cells
    \/ s.board[index] # null

clickIgnored(s, index) ==
    \/ s.reviewMode
    \/ ~s.gameActive
    \/ index \notin Cells
    \/ s.board[index] # null
    \/ s.currentPlayer # "X"

handleCellClick(s, index) ==
    IF clickIgnored(s, index) THEN s
    ELSE LET moved == makeMove(s, index, "X")
         IN IF moved.gameActive /\ moved.currentPlayer = "O"
            THEN [moved EXCEPT !.pendingTimers = s.pendingTimers + 1]
            ELSE moved

(***************************************************************************)
(* computerMove.  random is the numerator of the value Math.random()       *)
(* returns, random / RandomDenominator.                                    *)
(***************************************************************************)
randomIndex(empty, random) ==
    IF Len(empty) = 0 THEN undefined
    ELSE empty[((random * Len(empty)) \div RandomDenominator) + 1]

\* a budget of one more random move at medium and easy
randomBudget_oneMore(d) == IF d = "medium" THEN 2 ELSE 3

randomBudget(d) == IF d = "medium" THEN 1 ELSE 2

\* computerMove without the test of gameActive
computerMove_unguarded(s, random) ==
    LET empty == emptyIndices(s.board)
        aiWinMove == findWinningMove(s.board, "O")
    IN IF aiWinMove # -1 THEN makeMove(s, aiWinMove, "O")
       ELSE IF findWinningMove(s.board, "X") # -1
       THEN makeMove(s, findWinningMove(s.board, "X"), "O")
       ELSE IF s.difficulty = "hard"
       THEN makeMove(s, minimax(s.board, "O").index, "O")
       ELSE IF s.aiRandomMovesUsed < randomBudget(s.difficulty)
       THEN makeMove([s EXCEPT !.aiRandomMovesUsed = @ + 1],
                     randomIndex(empty, random), "O")
       ELSE makeMove(s, minimax(s.board, "O").index, "O")

computerMove(s, random) ==
    IF ~s.gameActive THEN s
    ELSE LET empty == emptyIndices(s.board)
             aiWinMove == findWinningMove(s.board, "O")
         IN IF aiWinMove # -1 THEN makeMove(s, aiWinMove, "O")
            ELSE IF findWinningMove(s.board, "X") # -1
            THEN makeMove(s, findWinningMove(s.board, "X"), "O")
            ELSE IF s.difficulty = "hard"
            THEN makeMove(s, minimax(s.board, "O").index, "O")
            ELSE IF s.aiRandomMovesUsed < randomBudget(s.difficulty)
            THEN makeMove([s EXCEPT !.aiRandomMovesUsed = @ + 1],
                          randomIndex(empty, random), "O")
            ELSE makeMove(s, minimax(s.board, "O").index, "O")

\* the callback registered by setTimeout runs
timerFires(s, random) ==
    computerMove([s EXCEPT !.pendingTimers = @ - 1], random)

(***************************************************************************)
(* Review cursor.                                                          *)
(***************************************************************************)
displayReviewMove(s) ==
    IF s.reviewIndex >= 0 /\ s.reviewIndex < Len(s.allMoves)
    THEN [s EXCEPT !.board = s.allMoves[s.reviewIndex + 1].board]
    ELSE [s EXCEPT !.board = emptyBoard]

startReview(s) ==
    IF Len(s.allMoves) = 0 THEN s
    ELSE [s EXCEPT !.reviewMode = TRUE, !.reviewIndex = -1,
                   !.board = emptyBoard]

(***************************************************************************)
(* moveBackward: step back in review mode, undo otherwise.                 *)
(***************************************************************************)
\* moveBackward without allMoves.pop()
moveBackward_keepsLog(s) ==
    IF s.reviewMode
    THEN IF s.reviewIndex > 0
         THEN displayReviewMove([s EXCEPT !.reviewIndex = @ - 1])
         ELSE s
    ELSE IF Len(s.moveHistory) = 0 THEN s
    ELSE LET lastMove == stackPeek(s.moveHistory)
             history == stackPop(s.moveHistory)
             popped == [s EXCEPT !.moveHistory = history,
                                 !.redoHistory = queueEnqueue(@, lastMove),
                                 !.gameActive = TRUE,
                                 !.reviewBtnDisabled = TRUE]
         IN IF Len(history) = 0
            THEN [popped EXCEPT !.board = emptyBoard,
                                !.currentPlayer = "X",
                                !.aiRandomMovesUsed = 0]
            ELSE LET prevMove == stackPeek(history)
                 IN [popped EXCEPT
                       !.board = prevMove.board,
                       !.currentPlayer = otherPlayer(prevMove.player),
                       !.aiRandomMovesUsed = prevMove.aiRandomMovesUsed]

\* moveBackward that leaves the review button as it is
moveBackward_keepsReviewBtn(s) ==
    IF s.reviewMode
    THEN IF s.reviewIndex > 0
         THEN displayReviewMove([s EXCEPT !.reviewIndex = @ - 1])
         ELSE s
    ELSE IF Len(s.moveHistory) = 0 THEN s
    ELSE LET lastMove == stackPeek(s.moveHistory)
             history == stackPop(s.moveHistory)
             popped == [s EXCEPT !.moveHistory = history,
                                 !.redoHistory = queueEnqueue(@, lastMove),
                                 !.allMoves = SubSeq(@, 1, Len(@) - 1),
                                 !.gameActive = TRUE]
         IN IF Len(history) = 0
            THEN [popped EXCEPT !.board = emptyBoard,
                                !.currentPlayer = "X",
                                !.aiRandomMovesUsed = 0]
            ELSE LET prevMove == stackPeek(history)
                 IN [popped EXCEPT
                       !.board = prevMove.board,
                       !.currentPlayer = otherPlayer(prevMove.player),
                       !.aiRandomMovesUsed = prevMove.aiRandomMovesUsed]

moveBackward(s) ==
    IF s.reviewMode
    THEN IF s.reviewIndex > 0
         THEN displayReviewMove([s EXCEPT !.reviewIndex = @ - 1])
         ELSE s
    ELSE IF Len(s.moveHistory) = 0 THEN s
    ELSE LET lastMove == stackPeek(s.moveHistory)
             history == stackPop(s.moveHistory)
             popped == [s EXCEPT !.moveHistory = history,
                                 !.redoHistory = queueEnqueue(@, lastMove),
                                 !.allMoves = SubSeq(@, 1, Len(@) - 1),
                                 !.gameActive = TRUE,
                                 !.reviewBtnDisabled = TRUE]
         IN IF Len(history) = 0
            THEN [popped EXCEPT !.board = emptyBoard,
                                !.currentPlayer = "X",
                                !.aiRandomMovesUsed = 0]
            ELSE LET prevMove == stackPeek(history)
                 IN [popped EXCEPT
                       !.board = prevMove.board,
                       !.currentPlayer = otherPlayer(prevMove.player),
                       !.aiRandomMovesUsed = prevMove.aiRandomMovesUsed]

(***************************************************************************)
(* moveForward: step forward in review mode, redo otherwise.               *)
(***************************************************************************)
\* moveForward whose review step may pass the last move of the log
moveForward_pastEnd(s) ==
    IF s.reviewMode
    THEN IF s.reviewIndex < Len(s.allMoves)
         THEN displayReviewMove([s EXCEPT !.reviewIndex = @ + 1])
         ELSE s
    ELSE IF Len(s.redoHistory) = 0 THEN s
    ELSE LET nextMove == queueFront(s.redoHistory)
             redone == [s EXCEPT
                          !.redoHistory = queueDequeue(@),
                          !.board = nextMove.board,
                          !.currentPlayer = otherPlayer(nextMove.player),
                          !.aiRandomMovesUsed = nextMove.aiRandomMovesUsed,
                          !.moveHistory = stackPush(@, nextMove),
                          !.allMoves = Append(@, nextMove)]
         IN IF \/ checkWinner("X", redone.board)
               \/ checkWinner("O", redone.board)
               \/ boardFull(redone.board)
            THEN [redone EXCEPT !.gameActive = FALSE,
                                !.reviewBtnDisabled = FALSE]
            ELSE redone

\* moveForward that, with an empty redo queue, re-applies the record on top
\* of the undo stack instead of returning
moveForward_reappliesTop(s) ==
    IF s.reviewMode
    THEN IF s.reviewIndex < Len(s.allMoves) - 1
         THEN displayReviewMove([s EXCEPT !.reviewIndex = @ + 1])
         ELSE s
    ELSE IF Len(s.redoHistory) = 0
    THEN IF Len(s.moveHistory) = 0 THEN s
         ELSE LET topMove == stackPeek(s.moveHistory)
              IN [s EXCEPT !.board = topMove.board,
                           !.currentPlayer = otherPlayer(topMove.player),
                           !.aiRandomMovesUsed = topMove.aiRandomMovesUsed]
    ELSE LET nextMove == queueFront(s.redoHistory)
             redone == [s EXCEPT
                          !.redoHistory = queueDequeue(@),
                          !.board = nextMove.board,
                          !.currentPlayer = otherPlayer(nextMove.player),
                          !.aiRandomMovesUsed = nextMove.aiRandomMovesUsed,
                          !.moveHistory = stackPush(@, nextMove),
                          !.allMoves = Append(@, nextMove)]
         IN IF \/ checkWinner("X", redone.board)
               \/ checkWinner("O", redone.board)
               \/ boardFull(redone.board)
            THEN [redone EXCEPT !.gameActive = FALSE,
                                !.reviewBtnDisabled = FALSE]
            ELSE redone

moveForward(s) ==
    IF s.reviewMode
    THEN IF s.reviewIndex < Len(s.allMoves) - 1
         THEN displayReviewMove([s EXCEPT !.reviewIndex = @ + 1])
         ELSE s
    ELSE IF Len(s.redoHistory) = 0 THEN s
    ELSE LET nextMove == queueFront(s.redoHistory)
             redone == [s EXCEPT
                          !.redoHistory = queueDequeue(@),
                          !.board = nextMove.board,
                          !.currentPlayer = otherPlayer(nextMove.player),
                          !.aiRandomMovesUsed = nextMove.aiRandomMovesUsed,
                          !.moveHistory = stackPush(@, nextMove),
                          !.allMoves = Append(@, nextMove)]
         IN IF \/ checkWinner("X", redone.board)
               \/ checkWinner("O", redone.board)
               \/ boardFull(redone.board)
            THEN [redone EXCEPT !.gameActive = FALSE,
                                !.reviewBtnDisabled = FALSE]
            ELSE redone

(***************************************************************************)
(* resetGame and setDifficulty.  Neither cancels a scheduled callback.     *)
(***************************************************************************)
\* resetGame without this.allMoves = []
resetGame_keepsLog(s) ==
    [s EXCEPT !.board = emptyBoard, !.currentPlayer = "X",
              !.gameActive = TRUE, !.moveHistory = <<>>,
              !.redoHistory = <<>>,
              !.reviewMode = FALSE, !.reviewIndex = -1,
              !.aiRandomMovesUsed = 0, !.reviewBtnDisabled = TRUE]

resetGame(s) ==
    [s EXCEPT !.board = emptyBoard, !.currentPlayer = "X",
              !.gameActive = TRUE, !.moveHistory = <<>>,
              !.redoHistory = <<>>, !.allMoves = <<>>,
              !.reviewMode = FALSE, !.reviewIndex = -1,
              !.aiRandomMovesUsed = 0, !.reviewBtnDisabled = TRUE]

setDifficulty(s, d) == resetGame([s EXCEPT !.difficulty = d])

(***************************************************************************)
(* Actions: one per event the page delivers to the object.                 *)
(***************************************************************************)
Becomes(s) ==
    /\ board' = s.board
    /\ currentPlayer' = s.currentPlayer
    /\ gameActive' = s.gameActive
    /\ difficulty' = s.difficulty
    /\ moveHistory' = s.moveHistory
    /\ redoHistory' = s.redoHistory
    /\ reviewMode' = s.reviewMode
    /\ allMoves' = s.allMoves
    /\ reviewIndex' = s.reviewIndex
    /\ aiRandomMovesUsed' = s.aiRandomMovesUsed
    /\ pendingTimers' = s.pendingTimers
    /\ reviewBtnDisabled' = s.reviewBtnDisabled

Holds(s) ==
    /\ board = s.board
    /\ currentPlayer = s.currentPlayer
    /\ gameActive = s.gameActive
    /\ difficulty = s.difficulty
    /\ moveHistory = s.moveHistory
    /\ redoHistory = s.redoHistory
    /\ reviewMode = s.reviewMode
    /\ allMoves = s.allMoves
    /\ reviewIndex = s.reviewIndex
    /\ aiRandomMovesUsed = s.aiRandomMovesUsed
    /\ pendingTimers = s.pendingTimers
    /\ reviewBtnDisabled = s.reviewBtnDisabled

Init ==
    /\ Holds(constructed)
    /\ undoCount = 0

\* a click on cell index, with at most maxPending callbacks scheduled
HandleCellClickWithin(index, maxPending) ==
    LET after == handleCellClick(St, index)
    IN /\ after.pendingTimers <= maxPending
       /\ Becomes(after)
       /\ UNCHANGED undoCount

HandleCellClick(index) == HandleCellClickWithin(index, MaxPending)

\* a scheduled computerMove callback runs
TimerFire ==
    /\ pendingTimers > 0
    /\ \E random \in 0..(RandomDenominator - 1) :
           Becomes(timerFires(St, random))
    /\ UNCHANGED undoCount

\* a click on the Backward button, with at most maxUndos undos per game
MoveBackwardWithin(maxUndos) ==
    LET after == moveBackward(St)
        undone == ~reviewMode /\ after # St
    IN /\ undone => undoCount < maxUndos
       /\ Becomes(after)
       /\ undoCount' = IF undone THEN undoCount + 1 ELSE undoCount

MoveBackward == MoveBackwardWithin(MaxUndos)

\* a click on the Forward button
MoveForward ==
    /\ Becomes(moveForward(St))
    /\ UNCHANGED undoCount

\* a click on the Review button, which a disabled button does not deliver
StartReview ==
    /\ ~reviewBtnDisabled
    /\ Becomes(startReview(St))
    /\ UNCHANGED undoCount

\* a click on the Reset button
ResetGame ==
    /\ Becomes(resetGame(St))
    /\ undoCount' = 0

\* a click on a difficulty button
SetDifficulty(d) ==
    /\ Becomes(setDifficulty(St, d))
    /\ undoCount' = 0

Next ==
    \/ \E index \in HumanCells : HandleCellClick(index)
    \/ TimerFire
    \/ MoveBackward
    \/ MoveForward
    \/ StartReview
    \/ ResetGame
    \/ \E d \in Difficulties : SetDifficulty(d)

Spec == Init /\ [][Next]_vars

(***************************************************************************)
(* minimax on its own: any board with either mark to move, and the step    *)
(* its loop takes into the recursive call, a move of the mark to move on   *)
(* an empty cell.                                                          *)
(***************************************************************************)
AllBoards == {codeBoard[n + 1] : n \in BoardCodes}

InitMinimax ==
    \E b \in AllBoards, player \in Players :
        /\ Holds([constructed EXCEPT !.board = b, !.currentPlayer = player])
        /\ undoCount = 0

MinimaxDescend(index) ==
    /\ ~checkWinner("X", board)
    /\ ~checkWinner("O", board)
    /\ board[index] = null
    /\ board' = setCell(board, index, currentPlayer)
    /\ currentPlayer' = otherPlayer(currentPlayer)
    /\ UNCHANGED <<gameActive, difficulty, moveHistory, redoHistory,
                   reviewMode, allMoves, reviewIndex, aiRandomMovesUsed,
                   pendingTimers, reviewBtnDisabled, undoCount>>

NextMinimax == \E index \in Cells : MinimaxDescend(index)

SpecMinimax == InitMinimax /\ [][NextMinimax]_vars

(***************************************************************************)
(* The same events with the timer fair: a callback that setTimeout holds   *)
(* runs after its delay, whatever the user does or does not do.            *)
(***************************************************************************)
SpecLive == Spec /\ WF_vars(TimerFire)

(***************************************************************************)
(* The same events with a second callback pending and one undo per game.   *)
(***************************************************************************)
NextTimers ==
    \/ \E index \in HumanCells : HandleCellClickWithin(index, TimersPending)
    \/ TimerFire
    \/ MoveBackwardWithin(TimersUndos)
    \/ MoveForward
    \/ StartReview
    \/ ResetGame
    \/ \E d \in Difficulties : SetDifficulty(d)

SpecTimers == Init /\ [][NextTimers]_vars

(***************************************************************************)
(* The same events explored one undo and one pending callback deeper.      *)
(***************************************************************************)
NextDeep ==
    \/ \E index \in HumanCells : HandleCellClickWithin(index, DeepPending)
    \/ TimerFire
    \/ MoveBackwardWithin(DeepUndos)
    \/ MoveForward
    \/ StartReview
    \/ ResetGame
    \/ \E d \in Difficulties : SetDifficulty(d)

SpecDeep == Init /\ [][NextDeep]_vars

(***************************************************************************)
(* Plain play: the human clicks any cell and the opponent answers; no      *)
(* undo, redo or review.                                                   *)
(***************************************************************************)
NextPlay ==
    \/ \E index \in Cells : HandleCellClick(index)
    \/ TimerFire
    \/ \E d \in Difficulties : SetDifficulty(d)

SpecPlay == Init /\ [][NextPlay]_vars

(***************************************************************************)
(* Properties.                                                             *)
(***************************************************************************)
RECURSIVE backwardTimes(_, _)
backwardTimes(s, k) == IF k = 0 THEN s ELSE backwardTimes(moveBackward(s), k - 1)

RECURSIVE forwardTimes(_, _)
forwardTimes(s, k) == IF k = 0 THEN s ELSE forwardTimes(moveForward(s), k - 1)

gameOver == ~gameActive /\ ~reviewMode

\* C1: at difficulty hard, with the human clicking and the opponent
\* answering through computerMove, a game that has ended is never a win for
\* X: it ended with O winning or with a full board.
HardNeverLoses ==
    (difficulty = "hard" /\ gameOver) =>
        /\ ~checkWinner("X", board)
        /\ checkWinner("O", board) \/ boardFull(board)

\* a game at hard that the human played to a draw on a full board
HardGameDrawn ==
    /\ difficulty = "hard"
    /\ gameOver
    /\ boardFull(board)
    /\ ~checkWinner("O", board)
    /\ Len(moveHistory) = 9

\* C2: on every reachable board checkWinner('X') and checkWinner('O') are
\* never both true.
NeverBothWinners ==
    ~(checkWinner("X", board) /\ checkWinner("O", board))

\* C3: outside review mode and with a non-empty undo stack, undo followed
\* immediately by redo restores the board, the active mark and the
\* random-move counter.
UndoRedoRoundTrip ==
    (~reviewMode /\ Len(moveHistory) > 0) =>
        LET back == moveForward(moveBackward(St))
        IN /\ back.board = board
           /\ back.currentPlayer = currentPlayer
           /\ back.aiRandomMovesUsed = aiRandomMovesUsed

\* C4: after k >= 1 consecutive undos the redo queue lists the undone moves
\* in the order they were played, and k redos re-apply them in that order,
\* ending with the board, undo stack and full log from before the undos.
RedoChronological ==
    (~reviewMode /\ Len(redoHistory) = 0) =>
        \A k \in 1..Len(moveHistory) :
            LET undone == backwardTimes(St, k)
                redone == forwardTimes(undone, k)
                n == Len(moveHistory)
            IN /\ undone.redoHistory = SubSeq(moveHistory, n - k + 1, n)
               /\ redone.board = board
               /\ redone.moveHistory = moveHistory
               /\ redone.allMoves = allMoves

\* the record makeMove leaves on top of the full log of session s
lastLogged(s) == s.allMoves[Len(s.allMoves)]

\* session after is session before with one more move, by player on cell
\* index, committed: redo queue empty, and the record of that move, with the
\* board as it now is, last in the full log
Committed(before, after, index, player) ==
    /\ after.redoHistory = <<>>
    /\ Len(after.allMoves) = Len(before.allMoves) + 1
    /\ lastLogged(after) =
           [index |-> index, player |-> player, board |-> after.board,
            aiRandomMovesUsed |-> after.aiRandomMovesUsed]
    /\ after.board = setCell(before.board, index, player)

\* C5: whenever makeMove commits a move m (for X by a click that is not
\* ignored, for O by computerMove in an active game), after any number of
\* undos, the redo queue is empty immediately afterwards and the last entry
\* of the full log is m.
CommitClearsRedo ==
    /\ \A index \in Cells :
          ~clickIgnored(St, index) =>
              Committed(St, handleCellClick(St, index), index, "X")
    /\ gameActive =>
          \A random \in 0..(RandomDenominator - 1) :
              LET after == computerMove(St, random)
              IN Committed(St, after, lastLogged(after).index, "O")

\* undone moves wait in the redo queue and X is about to commit a new move
CommitWithUndoneMovesQueued ==
    /\ undoCount >= 2
    /\ Len(redoHistory) >= 2
    /\ \E index \in HumanCells : ~clickIgnored(St, index)

\* C6: in every reachable state the full log is exactly the sequence of
\* records of the undo stack, oldest first.
LogEqualsUndoStack == allMoves = moveHistory

\* moves were undone and one of them redone; another is still queued
RedoneWithMoreQueued ==
    /\ ~reviewMode
    /\ undoCount >= 2
    /\ Len(redoHistory) = 1
    /\ Len(allMoves) >= 2
    /\ redoHistory[1].board # board
    /\ Len(emptyIndices(redoHistory[1].board)) > Len(emptyIndices(board))

\* C7: when resetGame or a difficulty change happens while a computerMove
\* callback is pending (the session is fresh, yet a callback is scheduled),
\* the callback, when it runs, places no mark: board, undo stack and full
\* log stay empty.
PendingMoveDiscardedOnReset ==
    (/\ pendingTimers > 0 /\ undoCount = 0
     /\ moveHistory = <<>> /\ redoHistory = <<>> /\ board = emptyBoard) =>
        \A random \in 0..(RandomDenominator - 1) :
            LET after == timerFires(St, random)
            IN /\ after.board = emptyBoard
               /\ after.moveHistory = <<>>
               /\ after.allMoves = <<>>

\* C8: at most one computerMove callback is pending in every reachable state.
AtMostOnePending == pendingTimers <= 1

\* C9: in review mode at index -1, stepping forward Len(allMoves) times
\* displays the board snapshot of every record of the full log in order and
\* ends at index Len(allMoves) - 1, and a further step changes nothing.
ReplayShowsEveryMove ==
    (reviewMode /\ reviewIndex = -1) =>
        /\ \A j \in 1..Len(allMoves) :
              LET shown == forwardTimes(St, j)
              IN /\ shown.reviewIndex = j - 1
                 /\ shown.board = allMoves[j].board
                 /\ shown.allMoves = allMoves
        /\ moveForward(forwardTimes(St, Len(allMoves)))
               = forwardTimes(St, Len(allMoves))

\* review has been stepped forward to the last move of a finished game
ReplayAtLastMove ==
    /\ reviewMode
    /\ Len(allMoves) >= 5
    /\ reviewIndex = Len(allMoves) - 1
    /\ board = allMoves[Len(allMoves)].board

\* C10: in review mode stepBackward decrements the index whenever it is
\* greater than -1; from index 0 it moves to -1 and shows the empty board.
ReplayBackwardToStart ==
    (reviewMode /\ reviewIndex > -1) =>
        LET back == moveBackward(St)
        IN /\ back.reviewIndex = reviewIndex - 1
           /\ reviewIndex = 0 => back.board = emptyBoard

\* cell c is empty on board b and some line through c has player on its
\* two other cells
completesLine(b, c, player) ==
    /\ b[c] = null
    /\ \E p \in 1..Len(winPatterns) :
          /\ \E k \in 1..3 : winPatterns[p][k] = c
          /\ \A k \in 1..3 :
                winPatterns[p][k] # c => b[winPatterns[p][k]] = player

completingCells(b, player) == {c \in Cells : completesLine(b, c, player)}

\* C11: whenever a scheduled computerMove places a mark (a callback is
\* pending and the game is active), at every difficulty and counter value: if
\* some cell completes a line for O the chosen cell is one of them;
\* otherwise, if some cell completes a line for X, the chosen cell is one of
\* those; and in both cases no random choice is spent.
WinThenBlockFirst ==
    (gameActive /\ pendingTimers > 0) =>
        \A random \in 0..(RandomDenominator - 1) :
            LET after == computerMove(St, random)
                chosen == lastLogged(after).index
                wins == completingCells(board, "O")
                blocks == completingCells(board, "X")
            IN /\ wins # {} => chosen \in wins
               /\ (wins = {} /\ blocks # {}) => chosen \in blocks
               /\ (wins # {} \/ blocks # {}) =>
                      after.aiRandomMovesUsed = aiRandomMovesUsed

\* the number of random moves difficulty d allows
budgetOf(d) == IF d = "hard" THEN 0 ELSE IF d = "medium" THEN 1 ELSE 2

\* C12: in every reachable state, undo and redo included, aiRandomMovesUsed
\* is at most 1 at medium, 2 at easy and 0 at hard; and a computerMove that
\* runs with the counter at the budget makes no random choice: it places the
\* same mark whatever Math.random returns and leaves the counter alone.
RandomWithinBudget ==
    /\ aiRandomMovesUsed <= budgetOf(difficulty)
    /\ (gameActive /\ pendingTimers > 0
        /\ aiRandomMovesUsed >= budgetOf(difficulty)) =>
           \A random \in 0..(RandomDenominator - 1) :
               /\ computerMove(St, random) = computerMove(St, 0)
               /\ computerMove(St, random).aiRandomMovesUsed
                      = aiRandomMovesUsed

\* at easy both random moves are spent, moves have been undone, and a
\* callback is about to choose on a board with no win and no block
BudgetSpentAfterUndo ==
    /\ difficulty = "easy"
    /\ aiRandomMovesUsed = 2
    /\ undoCount >= 1
    /\ gameActive
    /\ pendingTimers > 0
    /\ completingCells(board, "O") = {}
    /\ completingCells(board, "X") = {}
    /\ Len(emptyIndices(board)) >= 2

\* the indices a click can carry: the nine cells and one index out of range
\* on either side
ClickIndices == Cells \cup {-1, 9}

\* C13: a click on an occupied cell, on an index out of range, while the
\* game is not active, in review mode, or while it is not X's turn changes
\* nothing: every field keeps its value and no computerMove is scheduled.
InvalidClickIsNoOp ==
    \A index \in ClickIndices :
        (\/ index \notin Cells
         \/ board[index] # null
         \/ ~gameActive
         \/ reviewMode
         \/ currentPlayer # "X") =>
            handleCellClick(St, index) = St

\* O is to move with its callback pending and the human clicks an empty cell
ClickWhileOpponentToMove ==
    /\ gameActive
    /\ ~reviewMode
    /\ currentPlayer = "O"
    /\ pendingTimers = 1
    /\ Len(moveHistory) >= 3
    /\ \E index \in HumanCells : board[index] = null

\* C14: outside review mode, Backward with an empty undo stack and Forward
\* with an empty redo queue leave the whole state unchanged.
EmptyUndoRedoIsNoOp ==
    ~reviewMode =>
        /\ Len(moveHistory) = 0 => moveBackward(St) = St
        /\ Len(redoHistory) = 0 => moveForward(St) = St

\* a finished game with nothing to redo, moves having been undone and
\* replaced on the way
NothingToRedo ==
    /\ ~reviewMode
    /\ ~gameActive
    /\ Len(redoHistory) = 0
    /\ Len(moveHistory) >= 5
    /\ undoCount >= 2

\* sessions s and u have the same undo stack, redo queue and full log
sameHistory(s, u) ==
    /\ u.moveHistory = s.moveHistory
    /\ u.redoHistory = s.redoHistory
    /\ u.allMoves = s.allMoves

\* C15: while review mode is on, Forward, Backward, a click on any cell, a
\* click on Review and a computerMove callback that runs all leave the undo
\* stack, the redo queue and the full log as they are.
ReviewKeepsHistory ==
    reviewMode =>
        /\ sameHistory(St, moveForward(St))
        /\ sameHistory(St, moveBackward(St))
        /\ sameHistory(St, startReview(St))
        /\ \A index \in ClickIndices :
              sameHistory(St, handleCellClick(St, index))
        /\ pendingTimers > 0 =>
              \A random \in 0..(RandomDenominator - 1) :
                  sameHistory(St, timerFires(St, random))

\* the review has been stepped to a board with empty cells while a
\* computerMove callback is still pending
ReviewWithCallbackPending ==
    /\ reviewMode
    /\ pendingTimers > 0
    /\ reviewIndex >= 1
    /\ Len(emptyIndices(board)) >= 2

\* session s has the fields of a new game
freshGame(s) ==
    /\ s.board = emptyBoard
    /\ s.currentPlayer = "X"
    /\ s.gameActive
    /\ ~s.reviewMode
    /\ s.reviewIndex = -1
    /\ s.aiRandomMovesUsed = 0
    /\ s.moveHistory = <<>>
    /\ s.redoHistory = <<>>
    /\ s.allMoves = <<>>

\* C16: from every reachable state resetGame, and setDifficulty for every
\* difficulty, yield the initial state: empty board, X to move, game active,
\* review mode off with index -1, random-move counter 0, and empty undo
\* stack, redo queue and full log; setDifficulty also sets the difficulty.
ResetYieldsInitial ==
    /\ freshGame(resetGame(St))
    /\ resetGame(St).difficulty = difficulty
    /\ \A d \in Difficulties :
          /\ freshGame(setDifficulty(St, d))
          /\ setDifficulty(St, d).difficulty = d

\* a finished game under review, part of the way through the log, with a
\* random move spent
ResetFromReview ==
    /\ reviewMode
    /\ reviewIndex >= 2
    /\ ~gameActive
    /\ aiRandomMovesUsed >= 1
    /\ currentPlayer = "O"
    /\ Len(allMoves) >= 5

\* C17: in every reachable state, review mode is on only if the game is no
\* longer active and the full log is not empty.
ReviewOnlyAfterGame ==
    reviewMode => (~gameActive /\ Len(allMoves) > 0)

\* review has just been entered on a finished game in which moves had been
\* undone
ReviewJustEntered ==
    /\ reviewMode
    /\ reviewIndex = -1
    /\ board = emptyBoard
    /\ undoCount >= 1
    /\ Len(allMoves) >= 5

\* board b is terminal: a mark has a complete line or no cell is empty
terminal(b) ==
    checkWinner("X", b) \/ checkWinner("O", b) \/ boardFull(b)

\* C18: in every reachable state outside review mode the game is active if
\* and only if the board is not terminal.
LiveIffNotTerminal ==
    ~reviewMode => (gameActive <=> ~terminal(board))

\* the number of cells of board b that hold mark
marks(b, mark) == Cardinality({c \in Cells : b[c] = mark})

\* C19: on every reachable board outside review mode the number of X marks
\* minus the number of O marks is 0 or 1.
MarksAlternate ==
    ~reviewMode => (marks(board, "X") - marks(board, "O")) \in {0, 1}

\* C20: in every reachable state outside review mode, each record of the
\* full log holds the board of the record before it (the empty board for the
\* first) with the record's cell set to the record's mark, the board is the
\* snapshot of the last record, and the number of marks on the board is the
\* size of the undo stack.
HistoryMatchesBoard ==
    ~reviewMode =>
        /\ \A j \in 1..Len(allMoves) :
              LET before == IF j = 1 THEN emptyBoard
                            ELSE allMoves[j - 1].board
              IN allMoves[j].board =
                     setCell(before, allMoves[j].index, allMoves[j].player)
        /\ board = IF Len(allMoves) = 0 THEN emptyBoard
                   ELSE lastLogged(St).board
        /\ marks(board, "X") + marks(board, "O") = Len(moveHistory)

\* the game is active outside review mode and it is O's turn
opponentToMove == gameActive /\ ~reviewMode /\ currentPlayer = "O"

\* C21: in every reachable state where the game is active, review mode is
\* off and it is O's turn, a computerMove callback is pending; so, with the
\* timer fair, whenever it is O's turn O's turn eventually ends.
OpponentEventuallyMoves ==
    /\ [](opponentToMove => pendingTimers > 0)
    /\ opponentToMove ~> ~opponentToMove

\* the value of a finished board: -10 for a line of X, 10 for a line of O,
\* 0 for a full board without a line
terminalValue(b) ==
    IF checkWinner("X", b) THEN -10 ELSE IF checkWinner("O", b) THEN 10 ELSE 0

\* the game-theoretic value of board b with player to move, O maximizing and
\* X minimizing, from the values below of the boards one move later
valueFrom(b, player, below) ==
    IF terminal(b) THEN terminalValue(b)
    ELSE LET next == {below[boardCode(setCell(b, c, player)) + 1]
                           [otherPlayer(player)] :
                          c \in {c \in Cells : b[c] = null}}
         IN IF player = "O"
            THEN CHOOSE v \in next : \A w \in next : w <= v
            ELSE CHOOSE v \in next : \A w \in next : v <= w

\* ValueLevels(k)[j + 1][n + 1][p], j <= k: the value of the board numbered
\* n, with j empty cells, for player p to move
RECURSIVE ValueLevels(_)
ValueLevels(k) ==
    LET lower == IF k = 0 THEN <<>> ELSE ValueLevels(k - 1)
        below == IF k = 0 THEN <<>> ELSE lower[k]
    IN Append(lower,
              Tabulated([m \in 1..(3^9) |->
                 IF emptyCount[m] = k
                 THEN [X |-> valueFrom(codeBoard[m], "X", below),
                       O |-> valueFrom(codeBoard[m], "O", below)]
                 ELSE <<>>]))

ValueTable == ValueLevels(9)

gameValue(b, player) ==
    ValueTable[Len(emptyIndices(b)) + 1][boardCode(b) + 1][player]

\* the empty cells of b on which a move of player keeps the value of b
bestCells(b, player) ==
    {c \in Cells : /\ b[c] = null
                   /\ gameValue(setCell(b, c, player), otherPlayer(player))
                          = gameValue(b, player)}

\* C22: for every board that is not terminal and either mark to move,
\* minimax returns the game-theoretic value of the position, one of -10, 0
\* and 10 (O maximizing, X minimizing, no depth discount), with the
\* lowest-index empty cell that achieves it, and the board it was given is
\* unchanged when it returns.
MinimaxOptimalLowestIndex ==
    ~terminal(board) =>
        LET best == minimax(board, currentPlayer)
        IN /\ best.score \in {-10, 0, 10}
           /\ best.score = gameValue(board, currentPlayer)
           /\ best.index \in bestCells(board, currentPlayer)
           /\ \A c \in bestCells(board, currentPlayer) : best.index <= c
           /\ minimaxLeaves(board, currentPlayer) = board

\* a position in which some moves keep the value and others lose it, and
\* the lowest empty cell is one of those that lose it
BestCellNotFirst ==
    /\ ~terminal(board)
    /\ Len(emptyIndices(board)) >= 4
    /\ Cardinality(bestCells(board, currentPlayer)) >= 2
    /\ emptyIndices(board)[1] \notin bestCells(board, currentPlayer)
    /\ minimax(board, currentPlayer).score = 0
====
